---- MODULE Spec2Model ----
(***************************************************************************)
(* The three capability proxies of FabricObserver:                         *)
(*   elevated_docker_stats.c, elevated_netstat.c  (single exec)            *)
(*   elevated_proc_fd.c                           (ls | wc -l, two execs)  *)
(* One behaviour is one launch of one proxy binary.  C strings are         *)
(* sequences of characters; a string literal that is never concatenated    *)
(* is held as a one-element sequence (Lit).                                *)
(***************************************************************************)
EXTENDS Integers, Sequences, FiniteSets, TLC

----------------------------------------------------------------------------
(* Bounds of the model *)

\* the supplied argv[1] is at most this many characters longer than the
\* longest one that fits procFDParam
MaxOverflow == 1
\* the listing command emits at most this many lines
MaxLines == 2
\* lines the pipe holds before a writer blocks
PipeCap == 1

----------------------------------------------------------------------------
(* Program constants *)

\* char procFDParam[32];
ProcFDParamSize == 32

Variants == {"docker", "netstat", "procfd"}
Procs == {"parent", "child"}

Lit(s) == <<s>>
\* the null pointer, as an argument-vector end marker or an absent argv[1]
NullPtr == <<"NULL">>

ProcPrefix == <<"/", "p", "r", "o", "c", "/">>
FdSuffix == <<"/", "f", "d">>
BinLs == <<"/", "b", "i", "n", "/", "l", "s">>
UsrBinLsof == <<"/", "u", "s", "r", "/", "b", "i", "n", "/", "l", "s", "o", "f">>
MinusOne == <<"-", "1">>
LsName == <<"l", "s">>
UsrBinWc == Lit("/usr/bin/wc")
WcArgs == <<Lit("wc"), Lit("-l"), NullPtr>>
UsrBinDocker == Lit("/usr/bin/docker")
DockerParam ==
    <<Lit("docker"), Lit("stats"), Lit("--no-stream"), Lit("--format"),
      Lit("table {{.Container}}\t{{.Name}}\t{{.CPUPerc}}\t{{.MemUsage}}"), NullPtr>>
BinNetstat == Lit("/bin/netstat")
NetstatParam == <<Lit("netstat"), Lit("-tnap"), NullPtr>>

UsageMsg == "You have to supply one argument; a process id for use in ls or -1 which would mean run lsof."
FailMsg == "Fail!\n"

\* cap_value_t newcaps[2] of each variant
NewCaps(v) ==
    IF v = "docker" THEN <<"CAP_DAC_READ_SEARCH", "CAP_DAC_OVERRIDE">>
    ELSE <<"CAP_DAC_READ_SEARCH", "CAP_SYS_PTRACE">>

\* the element count taken one short
NumElem_OneShort(v) == Len(NewCaps(v)) - 1

\* sizeof(newcaps) / sizeof(newcaps[0])
NumElem(v) == Len(NewCaps(v))

AllCaps == {"CAP_DAC_READ_SEARCH", "CAP_DAC_OVERRIDE", "CAP_SYS_PTRACE"}

Range(s) == {s[i] : i \in 1..Len(s)}

\* permitted sets the deployment step (setcap ...+p) may have left on the
\* binary: none, only the first of the two capabilities, or more than the two
FileCaps(v) == {{}, {NewCaps(v)[1]}, AllCaps}

----------------------------------------------------------------------------
(* The caller's argument list *)

Digits == {"0", "1", "2", "3", "4", "5", "6", "7", "8", "9"}

RECURSIVE Repeat(_, _)
Repeat(c, n) == IF n = 0 THEN <<>> ELSE <<c>> \o Repeat(c, n - 1)

\* the longest argv[1] for which "/proc/" + argv[1] + "/fd" + NUL fits
FitLen == ProcFDParamSize - Len(ProcPrefix) - Len(FdSuffix) - 1

\* the first arguments a caller may pass
Argv1Values ==
    { MinusOne,
      <<>>,
      <<"4", "2">>,
      <<".", ".", "/", "x">>,
      <<"-", "2">> }
    \cup { Repeat("7", n) : n \in FitLen..(FitLen + MaxOverflow) }

----------------------------------------------------------------------------
(* C library string functions on a destination buffer.  A buffer value is  *)
(* the characters before the terminator; the terminator is written at      *)
(* index Len (0-based), so the highest index written is Len.               *)

\* strcpy(dst, src)
StrCpy(dst, src) == src

\* strcat(dst, src)
StrCat(dst, src) == dst \o src

\* a comparison that stops after the first character
StrCmpNe_FirstChar(a, b) == Len(a) = 0 \/ Len(b) = 0 \/ a[1] # b[1]

\* strcmp(a, b) != 0
StrCmpNe(a, b) == a # b

\* index of the last byte a string of this length writes into its buffer
LastIndex(s) == Len(s)

----------------------------------------------------------------------------
(* State *)

VARIABLES
    variant,      \* which proxy binary was launched
    argc,         \* main's argc
    argv1,        \* argv[1]; NullPtr when argc = 1
    permitted,    \* the process's permitted capability set (file capabilities)
    ambientOk,    \* the kernel accepts PR_CAP_AMBIENT_RAISE at all
    stdoutTty,    \* stdout is a terminal: stdio is line buffered
    pc,           \* position of each process in main / in the wrapped command
    lsbin,        \* char lsbin[32]
    procFDParam,  \* char procFDParam[32]
    ls_args,      \* char* ls_args[64], up to the end marker
    smashed,      \* a write past procFDParam damaged main's frame
    read1,        \* the string a read through argv[1] yields
    caps,         \* cap_t caps: its state and the inheritable flags of the working copy
    i,            \* loop index of set_ambient_caps
    kcaps,        \* kernel capability sets of each process
    pipe_fds,     \* int pipe_fds[2]
    fds,          \* descriptor table of each process
    pipeBuf,      \* lines in the pipe
    stdoutBuf,    \* stdio buffer of stdout of each process
    callerOut,    \* what reached the caller's standard output
    image,        \* program image of each process
    status,       \* exit status of each process
    log,          \* calls each process made, in order
    toWrite,      \* lines the listing command has still to write
    counted,      \* newlines the counting command has read
    emitted       \* lines the listing command has written to its standard output

envVars == <<variant, argc, argv1, permitted, ambientOk, stdoutTty>>
cmdVars == <<read1, lsbin, procFDParam, ls_args, smashed>>
capVars == <<caps, i, kcaps>>
fdVars == <<pipe_fds, fds>>
ioVars == <<stdoutBuf, callerOut, pipeBuf>>
runVars == <<toWrite, counted, emitted>>
vars == <<envVars, cmdVars, capVars, fdVars, ioVars, runVars, pc, image, status, log>>

FdNums == 0..4
Uninit == <<"?">>
ProxyImage == [bin |-> Lit("proxy"), args |-> <<>>]

\* how a process stands: running, exited with a status byte, or ended by a signal
Running == [how |-> "running", code |-> 0, sig |-> ""]
Exited(c) == [how |-> "exited", code |-> c % 256, sig |-> ""]
Signaled(sig) == [how |-> "signaled", code |-> 0, sig |-> sig]

\* descriptors 0, 1, 2 as the caller hands them over
InitFds == [n \in FdNums |-> IF n = 0 THEN "stdin" ELSE IF n = 1 THEN "stdout"
                             ELSE IF n = 2 THEN "stderr" ELSE "closed"]

Init ==
    /\ variant \in Variants
    /\ argc \in IF variant = "procfd" THEN 0..2 ELSE {1}
    /\ argv1 \in IF argc = 2 THEN Argv1Values ELSE {NullPtr}
    /\ permitted \in FileCaps(variant)
    /\ ambientOk \in BOOLEAN
    /\ stdoutTty \in BOOLEAN
    /\ pc = [p \in Procs |-> IF p = "child" THEN "unborn"
                             ELSE IF variant = "procfd" THEN "argc_check"
                             ELSE "cap_get_proc"]
    /\ read1 = Uninit
    /\ lsbin = Uninit
    /\ procFDParam = Uninit
    /\ ls_args = <<>>
    /\ smashed = FALSE
    /\ caps = [state |-> "none", inh |-> {}]
    /\ i = 0
    /\ kcaps = [p \in Procs |-> [inh |-> {}, amb |-> {}]]
    /\ pipe_fds = <<-1, -1>>
    /\ fds = [p \in Procs |-> IF p = "parent" THEN InitFds
                              ELSE [n \in FdNums |-> "closed"]]
    /\ pipeBuf = <<>>
    /\ stdoutBuf = [p \in Procs |-> <<>>]
    /\ callerOut = <<>>
    /\ image = [p \in Procs |-> ProxyImage]
    /\ status = [p \in Procs |-> Running]
    /\ log = [p \in Procs |-> <<>>]
    /\ toWrite = 0
    /\ counted = 0
    /\ emitted = 0

----------------------------------------------------------------------------
(* stdio and descriptors *)

Item(text, nl, n) == [text |-> text, nl |-> nl, n |-> n]
UsageItem == Item(UsageMsg, 0, 0)
FailItem == Item(FailMsg, 1, 0)
LineItem == Item("entry\n", 1, 0)
CountItem(k) == Item("count\n", 1, k)

Logged(p, call, what, ok) ==
    [log EXCEPT ![p] = Append(@, [call |-> call, what |-> what, ok |-> ok])]

HoldsDesc(q, d) == \E n \in FdNums : fds[q][n] = d
HasReader == \E q \in Procs : HoldsDesc(q, "pipeR")
HasWriter == \E q \in Procs : HoldsDesc(q, "pipeW")

NoFds == [n \in FdNums |-> "closed"]

\* write(2) of items on descriptor n of process p: what it does to the
\* caller's output and to the pipe, and the signal it raises ("": none)
WriteFd(p, n, items) ==
    LET d == fds[p][n] IN
    IF items = <<>> THEN [out |-> callerOut, pipe |-> pipeBuf, sig |-> ""]
    ELSE IF d \in {"stdout", "stderr"}
    THEN [out |-> callerOut \o items, pipe |-> pipeBuf, sig |-> ""]
    ELSE IF d = "pipeW" /\ HasReader
    THEN [out |-> callerOut, pipe |-> pipeBuf \o items, sig |-> ""]
    ELSE IF d = "pipeW"
    THEN [out |-> callerOut, pipe |-> pipeBuf, sig |-> "SIGPIPE"]
    ELSE [out |-> callerOut, pipe |-> pipeBuf, sig |-> ""]

\* printf(msg): into the stdio buffer; a line-buffered stream writes the
\* buffer out when the message ends a line
Printf(p, item) ==
    LET buf == Append(stdoutBuf[p], item)
        w == WriteFd(p, 1, buf)
    IN  IF stdoutTty /\ item.nl > 0
        THEN /\ stdoutBuf' = [stdoutBuf EXCEPT ![p] = <<>>]
             /\ callerOut' = w.out
             /\ pipeBuf' = w.pipe
        ELSE /\ stdoutBuf' = [stdoutBuf EXCEPT ![p] = buf]
             /\ UNCHANGED <<callerOut, pipeBuf>>

\* the process ends by a signal: nothing is flushed, descriptors close
Kill(p, sig) ==
    /\ status' = [status EXCEPT ![p] = Signaled(sig)]
    /\ pc' = [pc EXCEPT ![p] = "done"]
    /\ fds' = [fds EXCEPT ![p] = NoFds]
    /\ stdoutBuf' = [stdoutBuf EXCEPT ![p] = <<>>]

\* exit(code) with buf pending in stdio: buf is flushed to descriptor 1,
\* descriptors close
ExitWith(p, code, buf) ==
    LET w == WriteFd(p, 1, buf) IN
    /\ status' = [status EXCEPT ![p] = IF w.sig = "" THEN Exited(code) ELSE Signaled(w.sig)]
    /\ pc' = [pc EXCEPT ![p] = "done"]
    /\ fds' = [fds EXCEPT ![p] = NoFds]
    /\ stdoutBuf' = [stdoutBuf EXCEPT ![p] = <<>>]
    /\ callerOut' = w.out
    /\ pipeBuf' = w.pipe

Exit(p, code) == ExitWith(p, code, stdoutBuf[p])

----------------------------------------------------------------------------
(* elevated_proc_fd.c: main, argument handling *)

\* if (argc < 1) { printf(usage); return -1; }
ArgcCheck ==
    /\ pc["parent"] = "argc_check"
    /\ IF argc < 1
       THEN /\ ExitWith("parent", -1, Append(stdoutBuf["parent"], UsageItem))
            /\ log' = Logged("parent", "printf", "usage", TRUE)
            /\ UNCHANGED pipe_fds
       ELSE /\ pc' = [pc EXCEPT !["parent"] = "copy_lsbin"]
            /\ UNCHANGED <<fdVars, stdoutBuf, callerOut, pipeBuf, status, log>>
    /\ UNCHANGED <<envVars, cmdVars, capVars, runVars, image>>

\* strcpy(lsbin, "/bin/ls");
CopyLsbin ==
    /\ pc["parent"] = "copy_lsbin"
    /\ lsbin' = StrCpy(lsbin, BinLs)
    /\ pc' = [pc EXCEPT !["parent"] = "strcmp"]
    /\ UNCHANGED <<envVars, read1, procFDParam, ls_args, smashed, capVars, fdVars,
                   ioVars, runVars, image, status, log>>

\* what a read through a null argv[1] may yield when it does not fault
NullReads == {MinusOne, <<>>}

\* if (strcmp(argv[1], "-1") != 0): argv[1] is the null pointer when
\* argc = 1, and reading through it is undefined
Strcmp ==
    /\ pc["parent"] = "strcmp"
    /\ \/ /\ argv1 # NullPtr
          /\ read1' = argv1
          /\ pc' = [pc EXCEPT !["parent"] =
                      IF StrCmpNe(argv1, MinusOne) THEN "build_path" ELSE "select_lsof"]
          /\ log' = Logged("parent", "read_argv1", "strcmp", TRUE)
          /\ UNCHANGED <<status, fds, stdoutBuf>>
       \/ /\ argv1 = NullPtr
          /\ \E s \in NullReads :
                /\ read1' = s
                /\ pc' = [pc EXCEPT !["parent"] =
                            IF StrCmpNe(s, MinusOne) THEN "build_path" ELSE "select_lsof"]
          /\ log' = Logged("parent", "read_argv1", "strcmp", FALSE)
          /\ UNCHANGED <<status, fds, stdoutBuf>>
       \/ /\ argv1 = NullPtr
          /\ Kill("parent", "SIGSEGV")
          /\ log' = Logged("parent", "read_argv1", "strcmp", FALSE)
          /\ UNCHANGED read1
    /\ UNCHANGED <<envVars, lsbin, procFDParam, ls_args, smashed, capVars, pipe_fds,
                   callerOut, pipeBuf, runVars, image>>

\* what a write past the end of procFDParam may damage
OverflowEffects == {"nothing", "lsbin", "frame"}

\* the two strcat calls in the other order
FdPath_Swapped(arg) == StrCat(StrCat(StrCpy(Uninit, ProcPrefix), FdSuffix), arg)

\* "/proc/" + argv[1] + "/fd" as strcpy and two strcat build it
FdPath(arg) == StrCat(StrCat(StrCpy(Uninit, ProcPrefix), arg), FdSuffix)

\* strcpy(procFDParam, "/proc/"); strcat(procFDParam, argv[1]);
\* strcat(procFDParam, "/fd"); ls_args = { "ls", procFDParam, NULL };
BuildPath ==
    /\ pc["parent"] = "build_path"
    /\ LET path == FdPath(read1) IN
       /\ procFDParam' = path
       /\ ls_args' = <<LsName, path, NullPtr>>
       /\ IF LastIndex(path) <= ProcFDParamSize - 1
          THEN UNCHANGED <<lsbin, smashed>>
          ELSE \E e \in OverflowEffects :
                 /\ lsbin' = IF e = "lsbin"
                             THEN SubSeq(path, ProcFDParamSize + 1, Len(path))
                             ELSE lsbin
                 /\ smashed' = (e = "frame")
    /\ pc' = [pc EXCEPT !["parent"] = "cap_get_proc"]
    /\ log' = Logged("parent", "read_argv1", "strcat", argv1 # NullPtr)
    /\ UNCHANGED <<envVars, read1, capVars, fdVars, ioVars, runVars, image, status>>

\* strcpy(lsbin, "/usr/bin/lsof"); ls_args = { lsbin, NULL };
SelectLsof ==
    /\ pc["parent"] = "select_lsof"
    /\ lsbin' = StrCpy(lsbin, UsrBinLsof)
    /\ ls_args' = <<lsbin', NullPtr>>
    /\ pc' = [pc EXCEPT !["parent"] = "cap_get_proc"]
    /\ UNCHANGED <<envVars, read1, procFDParam, smashed, capVars, fdVars, ioVars,
                   runVars, image, status, log>>

----------------------------------------------------------------------------
(* CapabilityElevator: the same code in the three files *)

capRest == <<envVars, cmdVars, fdVars, ioVars, runVars, image, status>>

\* cap_t caps = cap_get_proc();
CapGetProc ==
    /\ pc["parent"] = "cap_get_proc"
    /\ \E ok \in BOOLEAN :
          /\ caps' = IF ok THEN [state |-> "live", inh |-> kcaps["parent"].inh]
                     ELSE [state |-> "null", inh |-> {}]
          /\ log' = Logged("parent", "cap_get_proc", "", ok)
    /\ pc' = [pc EXCEPT !["parent"] = "cap_set_flag"]
    /\ UNCHANGED <<capRest, i, kcaps>>

\* cap_set_flag(caps, CAP_INHERITABLE, 2, newcaps, CAP_SET);
CapSetFlag ==
    /\ pc["parent"] = "cap_set_flag"
    /\ caps' = IF caps.state = "live"
               THEN [caps EXCEPT !.inh = @ \cup {NewCaps(variant)[k] : k \in 1..2}]
               ELSE caps
    /\ log' = Logged("parent", "cap_set_flag", "", caps.state = "live")
    /\ pc' = [pc EXCEPT !["parent"] = "cap_set_proc"]
    /\ UNCHANGED <<capRest, i, kcaps>>

\* the kernel takes a new inheritable set only if every capability added
\* to it is in the permitted set
CapSetProcOk == caps.state = "live" /\ caps.inh \subseteq (kcaps["parent"].inh \cup permitted)

\* cap_set_proc(caps);  the return value is not looked at
CapSetProc ==
    /\ pc["parent"] = "cap_set_proc"
    /\ kcaps' = IF CapSetProcOk
                THEN [kcaps EXCEPT !["parent"].inh = caps.inh]
                ELSE kcaps
    /\ log' = Logged("parent", "cap_set_proc", "", CapSetProcOk)
    /\ pc' = [pc EXCEPT !["parent"] = "cap_free"]
    /\ UNCHANGED <<capRest, caps, i>>

\* cap_free(caps);
CapFree ==
    /\ pc["parent"] = "cap_free"
    /\ caps' = [caps EXCEPT !.state = "freed"]
    /\ log' = Logged("parent", "cap_free", "", caps.state = "live")
    /\ pc' = [pc EXCEPT !["parent"] = "set_ambient_caps"]
    /\ UNCHANGED <<capRest, i, kcaps>>

\* a failed raise sends main back to the inheritable load
AfterElevator_Retry ==
    IF i < NumElem(variant) THEN "cap_get_proc"
    ELSE IF variant = "procfd" THEN "pipe" ELSE "execv"

\* a rejected raise makes main give up instead of going on to the launch
AfterElevator_AbortOnFailure ==
    IF i < NumElem(variant) THEN "main_end"
    ELSE IF variant = "procfd" THEN "pipe" ELSE "execv"

\* main looks at argv[1] again once the elevator has returned
AfterElevator_Reread == IF variant = "procfd" THEN "strcmp" ELSE "execv"

\* where main goes on after set_ambient_caps returns
AfterElevator == IF variant = "procfd" THEN "pipe" ELSE "execv"

\* prctl(PR_CAP_AMBIENT, PR_CAP_AMBIENT_RAISE, cap, 0, 0) == 0: the kernel
\* raises a capability that is both permitted and inheritable
PrctlRaiseOk(cap) ==
    /\ ambientOk
    /\ cap \in permitted
    /\ cap \in kcaps["parent"].inh

\* the loop with the return left out: a failed raise is printed and the
\* loop goes on to the next capability
AmbientRaise_Continue ==
    /\ pc["parent"] = "set_ambient_caps"
    /\ i < NumElem(variant)
    /\ LET cap == NewCaps(variant)[i + 1] IN
       IF PrctlRaiseOk(cap)
       THEN /\ kcaps' = [kcaps EXCEPT !["parent"].amb = @ \cup {cap}]
            /\ log' = Logged("parent", "prctl", cap, TRUE)
            /\ UNCHANGED <<stdoutBuf, callerOut, pipeBuf>>
       ELSE /\ Printf("parent", FailItem)
            /\ log' = [log EXCEPT !["parent"] =
                          @ \o << [call |-> "prctl", what |-> cap, ok |-> FALSE],
                                  [call |-> "printf", what |-> "Fail", ok |-> TRUE] >>]
            /\ UNCHANGED kcaps
    /\ i' = i + 1
    /\ UNCHANGED <<envVars, cmdVars, fdVars, runVars, image, status, caps, pc>>

\* one turn of the loop of set_ambient_caps:
\*   if (prctl(...newcaps[i]...)) { printf("Fail!\n"); return; }
AmbientRaise ==
    /\ pc["parent"] = "set_ambient_caps"
    /\ i < NumElem(variant)
    /\ LET cap == NewCaps(variant)[i + 1] IN
       IF PrctlRaiseOk(cap)
       THEN /\ kcaps' = [kcaps EXCEPT !["parent"].amb = @ \cup {cap}]
            /\ i' = i + 1
            /\ log' = Logged("parent", "prctl", cap, TRUE)
            /\ UNCHANGED <<pc, stdoutBuf, callerOut, pipeBuf>>
       ELSE /\ Printf("parent", FailItem)
            /\ pc' = [pc EXCEPT !["parent"] = AfterElevator]
            /\ log' = [log EXCEPT !["parent"] =
                          @ \o << [call |-> "prctl", what |-> cap, ok |-> FALSE],
                                  [call |-> "printf", what |-> "Fail", ok |-> TRUE] >>]
            /\ UNCHANGED <<i, kcaps>>
    /\ UNCHANGED <<envVars, cmdVars, fdVars, runVars, image, status, caps>>

\* the loop of set_ambient_caps ends: i == num_elem
AmbientLoopEnd ==
    /\ pc["parent"] = "set_ambient_caps"
    /\ ~(i < NumElem(variant))
    /\ pc' = [pc EXCEPT !["parent"] = AfterElevator]
    /\ UNCHANGED <<capRest, capVars, log>>

----------------------------------------------------------------------------
(* Descriptor calls *)

OpenFd(p, n) == n \in FdNums /\ fds[p][n] # "closed"

\* dup2(old, new): descriptor table of p afterwards
Dup2(p, old, new) ==
    IF OpenFd(p, old) /\ new \in FdNums
    THEN [fds[p] EXCEPT ![new] = fds[p][old]]
    ELSE fds[p]

\* close(n): descriptor table of p afterwards
Close(p, n) ==
    IF OpenFd(p, n) THEN [fds[p] EXCEPT ![n] = "closed"] ELSE fds[p]

\* the lowest descriptor number not open in table t, above the numbers in used
LowestFree(t, used) ==
    CHOOSE n \in FdNums \ used :
        t[n] = "closed" /\ \A m \in FdNums \ used : t[m] = "closed" => n <= m

\* values an int read before anything was stored in it may show
Indeterminate == {0, 3}

\* binaries that may be present on the machine
Installed == {BinLs, UsrBinLsof, UsrBinWc, UsrBinDocker, BinNetstat}

\* execv(path, args) by process p: on success the image is replaced, the
\* stdio buffer of the old image is gone, descriptors and capabilities stay
ExecvOk(p, path, args, next) ==
    /\ path \in Installed
    /\ image' = [image EXCEPT ![p] = [bin |-> path, args |-> args]]
    /\ stdoutBuf' = [stdoutBuf EXCEPT ![p] = <<>>]
    /\ pc' = [pc EXCEPT ![p] = next]
    /\ log' = Logged(p, "execv", "", TRUE)

\* execv returns -1: main goes on to what follows the call
ExecvFails(p) ==
    /\ pc' = [pc EXCEPT ![p] = "main_end"]
    /\ log' = Logged(p, "execv", "", FALSE)
    /\ UNCHANGED <<image, stdoutBuf>>

----------------------------------------------------------------------------
(* ExecLauncher: elevated_docker_stats.c and elevated_netstat.c *)

SingleBin == IF variant = "docker" THEN UsrBinDocker ELSE BinNetstat
SingleParam == IF variant = "docker" THEN DockerParam ELSE NetstatParam

\* execv("/usr/bin/docker", param);  execv("/bin/netstat", param);
ExecSingle ==
    /\ pc["parent"] = "execv"
    /\ \/ ExecvOk("parent", SingleBin, SingleParam, "wrapped")
       \/ ExecvFails("parent")
    /\ UNCHANGED <<envVars, cmdVars, capVars, fdVars, callerOut, pipeBuf,
                   runVars, status>>

\* control reaches the closing brace of main: the process ends with status 0,
\* unless main's frame was damaged and the return faults
MainEnd(p) ==
    /\ pc[p] = "main_end"
    /\ IF smashed
       THEN /\ \E sig \in {"SIGABRT", "SIGSEGV"} : Kill(p, sig)
            /\ UNCHANGED <<callerOut, pipeBuf>>
       ELSE Exit(p, 0)
    /\ log' = Logged(p, "exit", "", TRUE)
    /\ UNCHANGED <<envVars, cmdVars, capVars, pipe_fds, runVars, image>>

----------------------------------------------------------------------------
(* PipeComposer: elevated_proc_fd.c *)

pipeRest == <<envVars, cmdVars, capVars, ioVars, runVars, image, status>>

\* pipe(pipe_fds);  the return value is not looked at
Pipe ==
    /\ pc["parent"] = "pipe"
    /\ \/ LET r == LowestFree(fds["parent"], {})
              w == LowestFree(fds["parent"], {r})
          IN  /\ pipe_fds' = <<r, w>>
              /\ fds' = [fds EXCEPT !["parent"] = [@ EXCEPT ![r] = "pipeR", ![w] = "pipeW"]]
              /\ log' = Logged("parent", "pipe", "", TRUE)
       \/ /\ pipe_fds' \in Indeterminate \X Indeterminate
          /\ log' = Logged("parent", "pipe", "", FALSE)
          /\ UNCHANGED fds
    /\ pc' = [pc EXCEPT !["parent"] = "fork"]
    /\ UNCHANGED pipeRest

\* if (fork()): the parent gets the child's pid, or -1 when no child was
\* made; either is non-zero.  The child is a copy of the parent.
Fork ==
    /\ pc["parent"] = "fork"
    /\ \/ /\ pc' = [pc EXCEPT !["parent"] = "p_dup2", !["child"] = "c_dup2"]
          /\ fds' = [fds EXCEPT !["child"] = fds["parent"]]
          /\ stdoutBuf' = [stdoutBuf EXCEPT !["child"] = stdoutBuf["parent"]]
          /\ kcaps' = [kcaps EXCEPT !["child"] = kcaps["parent"]]
          /\ log' = [log EXCEPT !["parent"] = Append(@, [call |-> "fork", what |-> "", ok |-> TRUE]),
                                !["child"] = Append(log["parent"], [call |-> "fork", what |-> "", ok |-> TRUE])]
       \/ /\ pc' = [pc EXCEPT !["parent"] = "p_dup2"]
          /\ log' = Logged("parent", "fork", "", FALSE)
          /\ UNCHANGED <<fds, stdoutBuf, kcaps>>
    /\ UNCHANGED <<envVars, cmdVars, caps, i, pipe_fds, callerOut, pipeBuf,
                   runVars, image, status>>

\* a descriptor call of process p at label at, leaving table t, going to next
FdStep(p, at, call, t, next) ==
    /\ pc[p] = at
    /\ fds' = [fds EXCEPT ![p] = t]
    /\ pc' = [pc EXCEPT ![p] = next]
    /\ log' = Logged(p, call, at, t # fds[p])
    /\ UNCHANGED <<pipeRest, pipe_fds>>

\* dup2(pipe_fds[1], 1);
ProducerDup2 == FdStep("parent", "p_dup2", "dup2", Dup2("parent", pipe_fds[2], 1), "p_close_w")
\* close(pipe_fds[1]);
ProducerCloseWrite == FdStep("parent", "p_close_w", "close", Close("parent", pipe_fds[2]), "p_close_r")
\* close(pipe_fds[0]);
ProducerCloseRead == FdStep("parent", "p_close_r", "close", Close("parent", pipe_fds[1]), "p_execv")

\* execv(lsbin, ls_args);
ProducerExec ==
    /\ pc["parent"] = "p_execv"
    /\ \/ /\ ExecvOk("parent", lsbin, ls_args, "listing")
          /\ toWrite' \in 0..MaxLines
       \/ /\ ExecvFails("parent")
          /\ UNCHANGED toWrite
    /\ UNCHANGED <<envVars, cmdVars, capVars, fdVars, callerOut, pipeBuf,
                   counted, emitted, status>>

\* dup2(pipe_fds[0], 0);
ConsumerDup2 == FdStep("child", "c_dup2", "dup2", Dup2("child", pipe_fds[1], 0), "c_close_r")
\* close(pipe_fds[0]);
ConsumerCloseRead == FdStep("child", "c_close_r", "close", Close("child", pipe_fds[1]), "c_close_w")
\* close(pipe_fds[1]);
ConsumerCloseWrite == FdStep("child", "c_close_w", "close", Close("child", pipe_fds[2]), "c_execv")

\* execv("/usr/bin/wc", wc_args);
ConsumerExec ==
    /\ pc["child"] = "c_execv"
    /\ \/ ExecvOk("child", UsrBinWc, WcArgs, "counting")
       \/ ExecvFails("child")
    /\ UNCHANGED <<envVars, cmdVars, capVars, fdVars, callerOut, pipeBuf,
                   runVars, status>>

----------------------------------------------------------------------------
(* The wrapped commands, as far as the proxy's wiring shows in them *)

\* ls / lsof writes one line to descriptor 1; a write to a full pipe waits,
\* a write to a pipe nobody reads raises SIGPIPE, a write to a descriptor
\* that is closed or not writable emits nothing
ListingWrite ==
    /\ pc["parent"] = "listing"
    /\ toWrite > 0
    /\ (fds["parent"][1] = "pipeW" /\ HasReader) => Len(pipeBuf) < PipeCap
    /\ LET w == WriteFd("parent", 1, <<LineItem>>) IN
       IF w.sig # ""
       THEN /\ Kill("parent", w.sig)
            /\ UNCHANGED <<callerOut, pipeBuf, toWrite, emitted>>
       ELSE /\ callerOut' = w.out
            /\ pipeBuf' = w.pipe
            /\ toWrite' = toWrite - 1
            /\ emitted' = IF fds["parent"][1] \in {"stdout", "stderr", "pipeW"}
                          THEN emitted + 1 ELSE emitted
            /\ UNCHANGED <<pc, status, fds, stdoutBuf>>
    /\ UNCHANGED <<envVars, cmdVars, capVars, pipe_fds, counted, image, log>>

\* ls / lsof has written everything and ends with its own status
ListingExit ==
    /\ pc["parent"] = "listing"
    /\ toWrite = 0
    /\ \E code \in {0, 2} : Exit("parent", code)
    /\ UNCHANGED <<envVars, cmdVars, capVars, pipe_fds, runVars, image, log>>

\* wc -l reads descriptor 0 and counts newlines: a line from the pipe, or a
\* line the caller's own standard input happens to hold
CountRead ==
    /\ pc["child"] = "counting"
    /\ \/ /\ fds["child"][0] = "pipeR"
          /\ pipeBuf # <<>>
          /\ counted' = counted + Head(pipeBuf).nl
          /\ pipeBuf' = Tail(pipeBuf)
       \/ /\ fds["child"][0] = "stdin"
          /\ counted < MaxLines
          /\ counted' = counted + 1
          /\ UNCHANGED pipeBuf
    /\ UNCHANGED <<envVars, cmdVars, capVars, fdVars, stdoutBuf, callerOut, toWrite,
                   emitted, pc, image, status, log>>

\* descriptor 0 of wc is at end of file, or cannot be read; the caller's own
\* standard input may end after any line
CountAtEnd ==
    LET d == fds["child"][0] IN
    IF d = "pipeR" THEN pipeBuf = <<>> /\ ~HasWriter
    ELSE TRUE

\* wc -l prints the count on descriptor 1 and ends
CountFinish ==
    /\ pc["child"] = "counting"
    /\ CountAtEnd
    /\ ExitWith("child", IF fds["child"][0] \in {"pipeR", "stdin"} THEN 0 ELSE 1,
                <<CountItem(counted)>>)
    /\ UNCHANGED <<envVars, cmdVars, capVars, pipe_fds, runVars, image, log>>

\* docker stats / netstat prints its table and ends with its own status
WrappedExit ==
    /\ pc["parent"] = "wrapped"
    /\ \E code \in {0, 1} : ExitWith("parent", code, <<LineItem>>)
    /\ UNCHANGED <<envVars, cmdVars, capVars, pipe_fds, runVars, image, log>>

----------------------------------------------------------------------------
(* The specification *)

Next ==
    \/ ArgcCheck
    \/ CopyLsbin
    \/ Strcmp
    \/ BuildPath
    \/ SelectLsof
    \/ CapGetProc
    \/ CapSetFlag
    \/ CapSetProc
    \/ CapFree
    \/ AmbientRaise
    \/ AmbientLoopEnd
    \/ ExecSingle
    \/ MainEnd("parent")
    \/ MainEnd("child")
    \/ Pipe
    \/ Fork
    \/ ProducerDup2
    \/ ProducerCloseWrite
    \/ ProducerCloseRead
    \/ ProducerExec
    \/ ConsumerDup2
    \/ ConsumerCloseRead
    \/ ConsumerCloseWrite
    \/ ConsumerExec
    \/ ListingWrite
    \/ ListingExit
    \/ CountRead
    \/ CountFinish
    \/ WrappedExit

\* a step of the process the caller launched
ParentStep ==
    \/ ArgcCheck \/ CopyLsbin \/ Strcmp \/ BuildPath \/ SelectLsof
    \/ CapGetProc \/ CapSetFlag \/ CapSetProc \/ CapFree
    \/ AmbientRaise \/ AmbientLoopEnd
    \/ ExecSingle \/ WrappedExit
    \/ Pipe \/ Fork
    \/ ProducerDup2 \/ ProducerCloseWrite \/ ProducerCloseRead \/ ProducerExec
    \/ MainEnd("parent")
    \/ ListingWrite \/ ListingExit

\* a step of the forked child
ChildStep ==
    \/ ConsumerDup2 \/ ConsumerCloseRead \/ ConsumerCloseWrite \/ ConsumerExec
    \/ MainEnd("child")
    \/ CountRead \/ CountFinish

Spec == Init /\ [][Next]_vars

\* wc -l has the caller's own standard input as descriptor 0: its next read
\* returns when the caller supplies a line or closes that input
WaitsOnCaller == pc["child"] = "counting" /\ fds["child"][0] = "stdin"

\* Both processes are scheduled fairly: a process that can take a step of its
\* own eventually takes one.  What the caller does with its standard input is
\* not the scheduler's to promise.
FairSpec ==
    /\ Spec
    /\ WF_vars(ParentStep)
    /\ WF_vars(ChildStep /\ ~WaitsOnCaller)

----------------------------------------------------------------------------
(* Vocabulary of the properties *)

\* positions in the log of p of the calls named c
Calls(p, c) == {k \in DOMAIN log[p] : log[p][k].call = c}
Called(p, c) == Calls(p, c) # {}
FailedCalls(p, c) == {k \in Calls(p, c) : ~log[p][k].ok}

\* the process has ended or runs the wrapped command
Replaced(p) == image[p] # ProxyImage
Ended(p) == status[p].how # "running"
Born(p) == pc[p] # "unborn"

ElevationCalls == {"cap_get_proc", "cap_set_flag", "cap_set_proc", "cap_free", "prctl"}
LaunchCalls == {"pipe", "fork", "dup2", "close", "execv"}

\* a non-empty string of decimal digits
IsDecimal(s) == Len(s) >= 1 /\ \A k \in 1..Len(s) : s[k] \in Digits

ArgAbsent == variant = "procfd" /\ argc = 1
ArgGiven == variant = "procfd" /\ argc = 2

----------------------------------------------------------------------------
(* C1: launched with no positional argument (argc = 1) the fd-count proxy  *)
(* prints the usage message and halts with a non-zero status, and never    *)
(* reads through the absent argv[1].                                       *)
C1_MissingArgumentSignalled ==
    ArgAbsent =>
        /\ ~Called("parent", "read_argv1")
        /\ Ended("parent") =>
              /\ status["parent"].how = "exited"
              /\ status["parent"].code # 0
              /\ UsageItem \in Range(callerOut)

C3_ExecFailureExitsNonZero ==
    \A p \in Procs :
        (FailedCalls(p, "execv") # {} /\ Ended(p)) => status[p] # Exited(0)

(* C4: every rejected capability call, the inheritable load as well as an  *)
(* ambient raise, is reported by a printed message: once the process has   *)
(* reached its terminal step the message has been written out.             *)
C4_CapabilityFailureReported ==
    (/\ \E c \in {"cap_set_flag", "cap_set_proc", "prctl"} : FailedCalls("parent", c) # {}
     /\ Replaced("parent") \/ Ended("parent"))
    => FailItem \in (Range(callerOut) \cup Range(pipeBuf))

(* C5: a first argument that is neither a decimal integer nor "-1" is      *)
(* rejected: no path is built from it and no capability or exec call is    *)
(* made.                                                                   *)
C5_InvalidArgumentRejected ==
    (ArgGiven /\ ~IsDecimal(argv1) /\ argv1 # MinusOne) =>
        /\ procFDParam = Uninit
        /\ \A k \in DOMAIN log["parent"] :
              log["parent"][k].call \notin (ElevationCalls \cup LaunchCalls)

(* C6: for a first argument P other than "-1" that fits the path buffer,   *)
(* the producer is invoked as /bin/ls with the argument vector             *)
(* "ls", "/proc/" P "/fd", end marker: both what execv is handed and what  *)
(* the replaced image runs.                                                *)
C6_ListingInvocationExact ==
    (ArgGiven /\ argv1 # MinusOne /\ Len(argv1) <= FitLen
       /\ pc["parent"] \in {"p_execv", "listing"}) =>
        LET expected == [bin |-> <<"/", "b", "i", "n", "/", "l", "s">>,
                         args |-> << <<"l", "s">>,
                                     <<"/", "p", "r", "o", "c", "/">> \o argv1 \o <<"/", "f", "d">>,
                                     NullPtr >>]
        IN  /\ [bin |-> lsbin, args |-> ls_args] = expected
            /\ Replaced("parent") => image["parent"] = expected

\* the listing command runs on the longest path that fits the buffer
C6_Witness ==
    /\ ArgGiven
    /\ Len(argv1) = FitLen
    /\ pc["parent"] = "listing"
    /\ image["parent"].bin = BinLs

(* C7: with first argument "-1" the producer is /usr/bin/lsof with no      *)
(* further argument and no /proc/<pid>/fd path is ever built or handed to  *)
(* an exec; with any other first argument /usr/bin/lsof is never chosen.   *)
C7_SentinelSelectsLsof ==
    ArgGiven =>
        IF argv1 = MinusOne
        THEN /\ procFDParam = Uninit
             /\ \A p \in Procs : \A k \in DOMAIN image[p].args :
                    image[p].args[k] # ProcPrefix \o argv1 \o FdSuffix
             /\ pc["parent"] \in {"p_execv", "listing"} =>
                    /\ lsbin = UsrBinLsof
                    /\ ls_args = <<UsrBinLsof, NullPtr>>
             /\ Replaced("parent") =>
                    image["parent"] = [bin |-> UsrBinLsof, args |-> <<UsrBinLsof, NullPtr>>]
        ELSE /\ lsbin # UsrBinLsof
             /\ \A p \in Procs : image[p].bin # UsrBinLsof

\* the system-wide listing command runs for the sentinel
C7_Witness ==
    /\ ArgGiven
    /\ argv1 = MinusOne
    /\ pc["parent"] = "listing"
    /\ image["parent"].bin = UsrBinLsof

\* the capability set each binary declares
DeclaredSet ==
    IF variant = "docker" THEN {"CAP_DAC_READ_SEARCH", "CAP_DAC_OVERRIDE"}
    ELSE {"CAP_DAC_READ_SEARCH", "CAP_SYS_PTRACE"}

\* the inheritable load and every ambient raise went through
ElevationSucceeded ==
    /\ Called("parent", "cap_set_proc")
    /\ FailedCalls("parent", "cap_set_proc") = {}
    /\ FailedCalls("parent", "prctl") = {}
    /\ pc["parent"] \notin {"cap_get_proc", "cap_set_flag", "cap_set_proc", "cap_free",
                            "set_ambient_caps"}

(* C8: when the inheritable load and every ambient raise succeed, the      *)
(* ambient set of a process at its image replacement is exactly the        *)
(* declared set of the binary.                                             *)
C8_AmbientSetExact ==
    \A p \in Procs :
        (ElevationSucceeded /\ Born(p) /\ (pc[p] \in {"execv", "p_execv", "c_execv"} \/ Replaced(p)))
            => kcaps[p].amb = DeclaredSet

\* both processes of the dual-command proxy run their commands with the raised set
C8_Witness ==
    /\ ElevationSucceeded
    /\ Replaced("parent")
    /\ Replaced("child")
    /\ kcaps["child"].amb = {"CAP_DAC_READ_SEARCH", "CAP_SYS_PTRACE"}

(* C9: when both image replacements succeed, the number the composed       *)
(* invocation writes to the caller's standard output is the number of      *)
(* lines the listing command wrote to its standard output.                 *)
C9_CountEqualsListing ==
    (Replaced("parent") /\ Replaced("child") /\ Ended("parent") /\ Ended("child")) =>
        \E k \in DOMAIN callerOut : callerOut[k] = CountItem(emitted)

\* rank of a call in the order inheritable load, ambient raise, launch
CallRank(c) ==
    IF c \in {"cap_get_proc", "cap_set_flag", "cap_set_proc", "cap_free"} THEN 1
    ELSE IF c = "prctl" THEN 2
    ELSE IF c \in LaunchCalls THEN 3
    ELSE 0

(* C10: in every process the calls follow the forward-only order           *)
(* inheritable load, ambient raises, fork / exec: no capability call       *)
(* follows a launch call, no ambient raise precedes cap_set_proc, and no   *)
(* step is made twice.                                                     *)
C10_ForwardOnly ==
    \A p \in Procs :
        LET loads == {k \in DOMAIN log[p] : CallRank(log[p][k].call) = 1}
            raises == {k \in DOMAIN log[p] : CallRank(log[p][k].call) = 2}
            launches == {k \in DOMAIN log[p] : CallRank(log[p][k].call) = 3}
            once == {k \in loads \cup launches : log[p][k].call \notin {"dup2", "close"}}
        IN  /\ \A j \in loads : \A k \in raises \cup launches : j < k
            /\ \A j \in raises : \A k \in launches : j < k
            /\ \A j, k \in once : log[p][j].call = log[p][k].call => j = k
            /\ \A j, k \in raises : log[p][j].what = log[p][k].what => j = k
            /\ raises # {} => Called(p, "cap_set_proc")
            /\ Replaced(p) => pc[p] \in {"wrapped", "listing", "counting", "done"}

\* a full run of the dual-command proxy: load, two raises, fork, two execs
C10_Witness ==
    /\ Cardinality(Calls("parent", "prctl")) = 2
    /\ Called("parent", "fork")
    /\ Called("parent", "execv")
    /\ Called("child", "execv")
    /\ Ended("parent")
    /\ Ended("child")


ElevatorReturned ==
    /\ Called("parent", "cap_free")
    /\ pc["parent"] # "set_ambient_caps"

IsPrctl(e) == e.call = "prctl"

\* the ambient raises the elevator requested, in order
RaisesRequested == SelectSeq(log["parent"], IsPrctl)

(* C12 as claimed: once the elevator has returned, a raise has been        *)
(* requested for every capability of the set, whatever became of the       *)
(* others.                                                                 *)
C12_EveryCapabilityRequested ==
    ElevatorReturned =>
        \A c \in Range(NewCaps(variant)) :
            \E k \in DOMAIN RaisesRequested : RaisesRequested[k].what = c

(* C12 as amended: the raises are requested one capability at a time, in   *)
(* the order of the set, and the first rejected raise ends the loop: a     *)
(* raise is requested for a capability only if every raise before it       *)
(* succeeded, and all are requested exactly when none is rejected or only  *)
(* the last one is.                                                        *)
C12_RaisesStopAtFirstFailure ==
    LET r == RaisesRequested
        n == Len(r)
    IN  /\ n <= Len(NewCaps(variant))
        /\ \A k \in 1..n :
              /\ r[k].what = NewCaps(variant)[k]
              /\ k < n => r[k].ok
        /\ ElevatorReturned =>
              /\ n >= 1
              /\ n = Len(NewCaps(variant)) \/ ~r[n].ok

\* the first raise was rejected and the second capability was never asked for
C12_Witness ==
    /\ ElevatorReturned
    /\ Len(RaisesRequested) = 1
    /\ ~RaisesRequested[1].ok
    /\ Called("parent", "execv")


\* the launch has the argument its binary needs
ArgPresent == variant # "procfd" \/ argc = 2

(* C13: with the required argument present the launched process attempts   *)
(* the exec of the wrapped command whatever the capability calls returned: *)
(* it never ends without having called execv, and until it has called      *)
(* execv it is alive and has a step to take.                               *)
C13_ExecAttemptedDespiteFailure ==
    ArgPresent =>
        /\ (Ended("parent") \/ Replaced("parent")) => Called("parent", "execv")
        /\ ~Called("parent", "execv") => (~Ended("parent") /\ ENABLED ParentStep)

\* the inheritable load and the ambient raise were both rejected and execv
\* was still called
C13_Witness ==
    /\ ArgPresent
    /\ FailedCalls("parent", "cap_set_proc") # {}
    /\ FailedCalls("parent", "prctl") # {}
    /\ Called("parent", "execv")


\* the descriptor numbers of process p that refer to an end of the pipe
PipeDescs(p) == {n \in FdNums : fds[p][n] \in {"pipeR", "pipeW"}}

\* in the log of p every dup2 comes before every close and every close
\* before every execv
WiringOrder(p) ==
    LET dups == Calls(p, "dup2")
        closes == Calls(p, "close")
        execs == Calls(p, "execv")
    IN  /\ \A j \in dups : \A k \in closes : j < k
        /\ \A k \in closes : \A m \in execs : k < m

(* C14: when the producer branch is about to call execv its only descriptor *)
(* on the pipe is descriptor 1, the write end; when the consumer branch is  *)
(* about to call execv its only descriptor on the pipe is descriptor 0, the *)
(* read end; in each branch dup2 precedes the closes and the closes precede *)
(* the execv.                                                               *)
C14_PipeHygiene ==
    /\ pc["parent"] = "p_execv" =>
           fds["parent"][1] = "pipeW" /\ PipeDescs("parent") = {1}
    /\ pc["child"] = "c_execv" =>
           fds["child"][0] = "pipeR" /\ PipeDescs("child") = {0}
    /\ \A p \in Procs : WiringOrder(p)


\* the launched process is in the producer branch or runs the listing command
InProducerBranch ==
    pc["parent"] \in {"p_dup2", "p_close_w", "p_close_r", "p_execv", "listing"}

\* a live consumer process holds a read end of the pipe
ConsumerHoldsReadEnd == Born("child") /\ HoldsDesc("child", "pipeR")

(* C15: an execution that reaches the pipe stage makes exactly one pipe and *)
(* one fork, both of which succeed, leaving a parent in the producer branch *)
(* and a child in the consumer branch; the producer branch never runs       *)
(* without a consumer process that holds the read end until it ends.        *)
C15_TwoProcessesJoined ==
    /\ Cardinality(Calls("parent", "pipe")) <= 1
    /\ Cardinality(Calls("parent", "fork")) <= 1
    /\ Called("parent", "fork") => Called("parent", "pipe")
    /\ InProducerBranch =>
           /\ Cardinality(Calls("parent", "pipe")) = 1
           /\ Cardinality(Calls("parent", "fork")) = 1
           /\ Born("child")
           /\ ~Ended("child") => ConsumerHoldsReadEnd
    /\ Born("child") => pc["child"] \in {"c_dup2", "c_close_r", "c_close_w", "c_execv",
                                         "main_end", "counting", "done"}


\* every process the run has made has ended
AllEnded == Ended("parent") /\ (Born("child") => Ended("child"))

(* C16: under fair scheduling, with a listing command that writes finitely  *)
(* many lines and exits, every execution that reaches the pipe stage ends   *)
(* with both processes terminated, whether or not either execv succeeds.    *)
C16_BothTerminate == Called("parent", "pipe") ~> AllEnded


\* process p holds the standard output the caller handed over
HoldsCallerOut(p) == HoldsDesc(p, "stdout")

\* the listing command runs in the launched process
ListingRuns == pc["parent"] = "listing"

(* C17: while the listing command runs the consumer is the only process     *)
(* whose standard output is the caller's, so no line the listing command    *)
(* writes to descriptor 1 reaches the caller directly: what the caller has  *)
(* received holds no listing line.                                          *)
C17_ListingNeverReachesCaller ==
    /\ ListingRuns => ~HoldsCallerOut("parent")
    /\ variant = "procfd" => \A k \in DOMAIN callerOut : callerOut[k] # LineItem


\* the path has been built in procFDParam
PathBuilt == Called("parent", "read_argv1") /\ procFDParam # Uninit

(* C18: for every first argument the bytes written into procFDParam         *)
(* ("/proc/", the argument, "/fd" and the terminator) stay inside the       *)
(* buffer: the highest index written is at most ProcFDParamSize - 1.        *)
C18_WriteIndexInBounds ==
    PathBuilt => LastIndex(procFDParam) \in 0..(ProcFDParamSize - 1)

====
